---- MODULE Spec2Model ----
(***************************************************************************)
(* A model of venv-update (src/venv_update.py) and pip-faster              *)
(* (src/pip_faster.py).                                                    *)
(*                                                                         *)
(* Spec        : venv_update.main() over several invocations against one   *)
(*               environment directory: the re-exec chain, the version     *)
(*               check, removal / creation of the environment, the install *)
(*               subprocesses and the validity marker (mtime).             *)
(* SpecInstall : pip_faster.do_install(): the three pip phases, the        *)
(*               dependency trace and the prune (uninstall) step.          *)
(***************************************************************************)
EXTENDS Integers, Sequences, FiniteSets, TLC

(***************************************************************************)
(* Bounds of the model.                                                    *)
(***************************************************************************)
MaxResult == 6      \* entries of trace_requirements' result list that are kept
MaxChildren == 1    \* child processes left running by an interrupted step

(***************************************************************************)
(* Program constants.                                                      *)
(***************************************************************************)
DEFAULT_VIRTUALENV_PATH == "virtualenv_run"

(***************************************************************************)
(* The world venv-update runs in.                                          *)
(*                                                                         *)
(* Interpreter paths.  "sys" and "syslink" are two path strings of one     *)
(* file (a symlink), version 1; "py" is another interpreter, version 2;    *)
(* "inter" is <cache>/venv-update/venv/bin/python; "dest" is               *)
(* <venv_path>/bin/python.                                                 *)
(* Script paths.  "orig" is the script as installed; "scratch" is the copy *)
(* <cache>/venv-update/venv-update; "scratchlink" is a symlink to it.      *)
(***************************************************************************)
Versions == {1, 2}
ReqFiles == {"requirements.txt", "requirements2.txt"}
EnvDir == "venv"                \* the directory named on the command line
PyPath == "py"                  \* the path string of the other interpreter

\* argument lists given to venv-update
ArgLists ==
    { <<"venv">>,
      <<"--python=py", "venv">>,
      <<"venv", "--python=syslink">>,
      <<"-p", "py", "venv">>,
      <<"--system-site-packages", "venv">> }

\* exit codes of failing subprocesses
FailCodes == {2}

VARIABLES
    \* ---- the running venv-update process
    pc,             \* position in main()
    argv,           \* sys.argv[1:]
    venv_path,      \* main()'s local: what parseargs returned
    cur,            \* sys.executable of the running process image
    script,         \* dotpy(__file__) of the running process image
    children,       \* child processes not yet waited for
    exc,            \* the exception that left raise_on_failure in main()'s try
    raised,         \* what venv_update(args) raised, before raise_on_failure
    exit_code,      \* exit status of the finished process
    nl_venv_path,   \* notlocal.venv_path, "" while unset
    \* ---- the file system
    venv_dir,       \* EnvDir exists and is a directory
    venv_py,        \* version of EnvDir/bin/python, 0 when it does not exist
    venv_builds,    \* the builds whose files are in EnvDir: their version,
                    \* their creation options and where they were made
    venv_mtime,     \* mtime of EnvDir
    req_mtime,      \* mtime of each requirements file
    scratch_py,     \* version of the intermediate python, 0 when missing
    scratch_lib,    \* <scratch>/virtualenv.py exists
    scratch_copy,   \* <scratch>/venv-update exists
    \* ---- history of the current invocation (not program state)
    execs,          \* the process replacements: <<[from, to, kind, sfrom, sto]>>,
                    \* each with env, the environment's version at that time
    marks,          \* the timestamps main() wrote: "valid", "invalid" on the
                    \* environment directory, "valid-other" on another path
    out,            \* info() messages
    removed,        \* rm -rf of the environment ran
    created,        \* environment creation ran: <<[cur, source]>>
    kept,           \* adjust_options left by SystemExit(0)
    reaped,         \* children waited for by wait_for_all_subprocesses
    waited          \* wait_for_all_subprocesses returned

VARIABLES
    \* ---- pip-faster: the running do_install(reqs)
    ipc,                    \* position in do_install
    required,               \* pip_parse_requirements(reqs)
    previously_installed,   \* pip_get_installed(), taken on entry
    recently_installed,     \* what the two pip_install calls returned
    working_set,            \* trace_requirements: fresh_working_set()
    queue,                  \* trace_requirements: the deque
    result,                 \* trace_requirements: the list built up
    errors,                 \* trace_requirements: the flag
    seen_warnings,          \* trace_requirements: names already reported
    install_exit,           \* exit status of pip-faster, -1 while it runs
    unbuilt,                \* the required packages `pip wheel` built no wheel for
    \* ---- the environment's site-packages
    installed,              \* version of each package, 0 when not installed
    \* ---- history of the current pip-faster run (not program state)
    before,                 \* `installed` when the run started
    newly,                  \* packages pip installed or reinstalled in this run
    phases,                 \* the pip commands that returned: <<[cmd, index, rc]>>
    logged,                 \* logger.error calls: <<[kind, name]>>
    uninstalls,             \* the uninstall commands issued: <<names>>
    \* ---- history of the run before (not program state)
    previous_run,           \* its requirements and the site-packages it left
    \* ---- history of venv-update's step before pip-faster (not program state)
    first_step,             \* the two command lines, and whether the override
                            \* file was there
    \* ---- one call of PackageFinder.find_requirement
    lookup,                 \* req, upgrade, self.find_links and the files on disk
    answer                  \* what the call did and gave back

VARIABLES
    \* ---- one in-process pip call: pip(args) or pip_install(args)
    pip_pc,                 \* position in the call
    pip_via,                \* "pip_install" or "pip": what do_install called
    find_requirement,       \* PackageFinder.find_requirement
    unpatched,              \* PackageFinder.unpatched['find_requirement'],
                            \* "absent" while the attribute does not exist
    InstallCommand_run,     \* InstallCommand.run
    orig_installcommand,    \* pip_install's local: orig_installcommand['run']
    pip_result,             \* pip(): result, -1 before pipmodule.main returned
    pip_exc                 \* the exception on its way out of the call

procvars == <<pc, argv, venv_path, cur, script, children, exc, raised, exit_code, nl_venv_path>>
fsvars == <<venv_dir, venv_py, venv_builds, venv_mtime, req_mtime,
            scratch_py, scratch_lib, scratch_copy>>
histvars == <<execs, marks, out, removed, created, kept, reaped, waited>>
instvars == <<ipc, required, previously_installed, recently_installed, working_set,
              queue, result, errors, seen_warnings, install_exit, unbuilt,
              installed, before, newly, phases, logged, uninstalls, previous_run,
              first_step>>
patchvars == <<pip_pc, pip_via, find_requirement, unpatched, InstallCommand_run,
               orig_installcommand, pip_result, pip_exc>>
findvars == <<lookup, answer, patchvars>>
vars == <<procvars, fsvars, histvars, instvars, findvars>>

(***************************************************************************)
(* Exceptions.                                                             *)
(***************************************************************************)
NoExc == [type |-> "none", code |-> 0]
CalledProcessError(rc) == [type |-> "CalledProcessError", code |-> rc]
SystemExit(c) == [type |-> "SystemExit", code |-> c]
KeyboardInterrupt == [type |-> "KeyboardInterrupt", code |-> 1]
ErrorString == [type |-> "errors", code |-> 1]      \* mainfunc returned a message
OtherException == [type |-> "Exception", code |-> 1]

\* raise_on_failure(mainfunc), given what mainfunc raised or returned:
\* the exception that leaves raise_on_failure (NoExc: it returns).
RaiseOnFailure(e) ==
    IF e.type = "errors" THEN SystemExit(e.code)
    ELSE IF e.type = "CalledProcessError" THEN SystemExit(e.code)
    ELSE IF e.type = "SystemExit" THEN (IF e.code # 0 THEN e ELSE NoExc)
    ELSE IF e.type = "KeyboardInterrupt" THEN SystemExit(1)
    ELSE e

(***************************************************************************)
(* Argument parsing.                                                       *)
(***************************************************************************)
DashTokens == {"-p", "--python=py", "--python=syslink", "--", "-r",
               "--system-site-packages"}
StartsWithDash(t) == t \in DashTokens

\* parseargs(args): the first argument before "--" that does not start with "-"
RECURSIVE parseargs(_)
parseargs(args) ==
    IF args = <<>> THEN DEFAULT_VIRTUALENV_PATH
    ELSE IF Head(args) = "--" THEN DEFAULT_VIRTUALENV_PATH
    ELSE IF StartsWithDash(Head(args)) THEN parseargs(Tail(args))
    ELSE Head(args)

\* virtualenv's option parser: -p takes the next token as its value,
\* --python=X carries it, "--" ends the options; the rest is positional.
RECURSIVE OptParse(_, _)
OptParse(args, acc) ==
    IF args = <<>> THEN acc
    ELSE IF Head(args) = "--"
        THEN [acc EXCEPT !.positional = acc.positional \o Tail(args)]
    ELSE IF Head(args) = "-p" /\ Len(args) >= 2
        THEN OptParse(Tail(Tail(args)), [acc EXCEPT !.python = args[2]])
    ELSE IF Head(args) = "--python=py"
        THEN OptParse(Tail(args), [acc EXCEPT !.python = "py"])
    ELSE IF Head(args) = "--python=syslink"
        THEN OptParse(Tail(args), [acc EXCEPT !.python = "syslink"])
    ELSE IF Head(args) = "--system-site-packages"
        THEN OptParse(Tail(args), [acc EXCEPT !.system_site_packages = TRUE])
    ELSE IF StartsWithDash(Head(args)) THEN OptParse(Tail(args), acc)
    ELSE OptParse(Tail(args), [acc EXCEPT !.positional = Append(acc.positional, Head(args))])

VirtualenvOptions(args) ==
    OptParse(args, [python |-> "", system_site_packages |-> FALSE, positional |-> <<>>])

\* adjust_options: notlocal.venv_path
AdjustVenvPath(args) ==
    LET virtualenv_args == VirtualenvOptions(args).positional
    IN  IF virtualenv_args # <<>> THEN virtualenv_args[1] ELSE DEFAULT_VIRTUALENV_PATH

(***************************************************************************)
(* Files.                                                                  *)
(***************************************************************************)
FileOf(p) ==
    CASE p = "sys" -> "f_sys"
      [] p = "syslink" -> "f_sys"
      [] p = "py" -> "f_py"
      [] p = "inter" -> "f_inter"
      [] p = "dest" -> "f_dest"
      [] p = "orig" -> "f_orig"
      [] p = "scratch" -> "f_scratch"
      [] p = "scratchlink" -> "f_scratch"

exists(p) ==
    CASE p \in {"sys", "syslink", "py", "orig"} -> TRUE
      [] p = "inter" -> scratch_py # 0
      [] p = "dest" -> venv_py # 0
      [] p \in {"scratch", "scratchlink"} -> scratch_copy

samefile_ByString(file1, file2) ==
    IF ~exists(file1) \/ ~exists(file2) THEN FALSE ELSE file1 = file2
samefile(file1, file2) ==
    IF ~exists(file1) \/ ~exists(file2) THEN FALSE
    ELSE FileOf(file1) = FileOf(file2)

\* get_python_version(interpreter): 0 stands for None
get_python_version(p) ==
    IF ~exists(p) THEN 0
    ELSE CASE p \in {"sys", "syslink"} -> 1
           [] p = "py" -> 2
           [] p = "inter" -> scratch_py
           [] p = "dest" -> venv_py

\* what virtualenv writes into the directory: an environment of the source
\* interpreter's version, with the options of the command line, whose
\* scripts and paths name the place it is made at
Build(version, args) ==
    [version |-> version,
     system_site_packages |-> VirtualenvOptions(args).system_site_packages,
     at |-> "here"]

\* the directory after a build was written into it: the files of a build
\* of the same version are overwritten, those of another version stay
Written(builds, b) == {o \in builds : o.version # b.version} \cup {b}

\* adjust_options: the interpreter virtualenv is told to copy
SourcePython(args, current_python) ==
    IF VirtualenvOptions(args).python # ""
        THEN VirtualenvOptions(args).python
        ELSE current_python

\* venv_python(venv_path) of the directory virtualenv works on
DestinationPython == "dest"

\* isdir(path), for the paths main() can hold
isdir(p) == p = EnvDir /\ venv_dir

(***************************************************************************)
(* Timestamps.  Only their order is kept: 0 is the epoch, and after every  *)
(* write the timestamps in use are renumbered 1, 2, ... in their order.    *)
(* A write "now" is later than every timestamp already on a file.          *)
(***************************************************************************)
Stamps(vm, rm) == {vm} \cup {rm[f] : f \in ReqFiles}
Latest(S) == CHOOSE x \in S : \A y \in S : y <= x
Rank(x, S) == IF x = 0 THEN 0 ELSE Cardinality({y \in S : y # 0 /\ y <= x})
Now == 1 + Latest(Stamps(venv_mtime, req_mtime))
SetTimes(vm, rm) ==
    /\ venv_mtime' = Rank(vm, Stamps(vm, rm))
    /\ req_mtime' = [f \in ReqFiles |-> Rank(rm[f], Stamps(vm, rm))]

\* touch(filename, timestamp) on the environment directory; a timestamp
\* of None (<<>> here, <<t>> otherwise) is the current time
touch(timestamp) ==
    SetTimes(IF timestamp = <<>> THEN Now ELSE timestamp[1], req_mtime)


(***************************************************************************)
(* The world pip-faster runs in: packages, names and requirements.         *)
(*                                                                         *)
(* A distribution is known by its key, the lower-cased safe name.  "b" 1   *)
(* declares the dependency a==2 and "c" 1 the same one written A==2;       *)
(* circular-a and circular-b declare each other; pip-faster declares       *)
(* virtualenv and wheel; no other package declares a dependency.           *)
(***************************************************************************)
Packages == {"a", "b", "c", "circular-a", "circular-b", "pip", "pip-faster",
             "pure-python-package", "setuptools", "virtualenv",
             "weird-casing-package", "wheel"}

\* all package keys, in the order sorted() gives them
SortedKeys == <<"a", "b", "c", "circular-a", "circular-b", "pip", "pip-faster",
                "pure-python-package", "setuptools", "virtualenv",
                "weird-casing-package", "wheel">>

\* the newest version the index and the cache offer
LatestVersion(k) == IF k = "a" THEN 2 ELSE 1

\* pkg_resources.safe_name: runs of characters other than letters, digits
\* and "." become "-"
safe_name(n) ==
    CASE n = "WEIRD_cAsing-packAge" -> "WEIRD-cAsing-packAge"
      [] n = "pure_python_package" -> "pure-python-package"
      [] OTHER -> n

\* str.lower
lower(n) ==
    CASE n = "WEIRD-cAsing-packAge" -> "weird-casing-package"
      [] n = "weird-CASING-pACKage" -> "weird-casing-package"
      [] n = "A" -> "a"
      [] OTHER -> n

\* the project name in a distribution's metadata, as pkg_resources reads it
ProjectName(k) ==
    IF k = "weird-casing-package" THEN safe_name("weird-CASING-pACKage") ELSE k

\* pip's InstallRequirement for a requirement given by name: req.name is
\* req.req.project_name, req.req.key its lower case; spec 0 is "any version"
Requirement(text, spec) ==
    [name |-> safe_name(text), key |-> lower(safe_name(text)), spec |-> spec, url |-> ""]

\* pip's InstallRequirement for a URL without a name: req.req is None
UrlRequirement(k) == [name |-> "None", key |-> "None", spec |-> 0, url |-> k]

\* dist.requires(), sorted by key
requires(k, v) ==
    CASE k = "b" /\ v = 1 -> <<Requirement("a", 2)>>
      [] k = "c" /\ v = 1 -> <<Requirement("A", 2)>>
      [] k = "circular-a" /\ v = 1 -> <<Requirement("circular-b", 0)>>
      [] k = "circular-b" /\ v = 1 -> <<Requirement("circular-a", 0)>>
      [] k = "pip-faster" /\ v = 1 -> <<Requirement("virtualenv", 0), Requirement("wheel", 0)>>
      [] OTHER -> <<>>

\* `dist in req`: the version satisfies the requirement's specifier
Satisfies(v, spec) == spec = 0 \/ v = spec

\* the contents of the requirements files pip-faster is run on
RequirementFiles ==
    { <<>>,
      <<Requirement("b", 0)>>,
      <<Requirement("a", 1)>>,
      <<Requirement("a", 1), Requirement("b", 0)>>,
      <<Requirement("a", 2), Requirement("b", 0)>>,
      <<Requirement("a", 1), Requirement("b", 0), Requirement("c", 0)>>,
      <<Requirement("WEIRD_cAsing-packAge", 0)>>,
      <<Requirement("circular-a", 0)>>,
      <<Requirement("b", 0), Requirement("circular-a", 0)>>,
      <<UrlRequirement("pure-python-package")>>,
      <<UrlRequirement("weird-casing-package")>> }

BOOTSTRAP_VERSIONS == <<Requirement("wheel", 1)>>

\* exit codes of a failing pip command (or 1 for an interrupt)
PipFailCodes == {1, 2}

\* site-packages of a new environment
NewEnvironment == [k \in Packages |-> IF k \in {"pip", "setuptools"} THEN 1 ELSE 0]

\* venv_update.py: VENV_UPDATE_REQS_OVERRIDE, __version__
VENV_UPDATE_REQS_OVERRIDE == "requirements.d/venv-update.txt"
PipFasterVersion == "pip-faster==1.0rc2.dev1"

\* requirements.d/venv-update.txt, when it is there
OverrideFile == <<Requirement("pip-faster", 1), Requirement("pure_python_package", 0)>>

\* adjust_options: notlocal.pip_args of a command line that names no
\* requirements file
DefaultPipArgs == <<"-r", "requirements.txt">>

\* venv_update: the arguments of run(pip_install + args)
first_step_args_NoOverride(override) == <<PipFasterVersion>>
first_step_args(override) ==
    IF override THEN <<"-r", VENV_UPDATE_REQS_OVERRIDE>> ELSE <<PipFasterVersion>>

\* venv_update: the command after `python`, of the second run
prune_step(pip_options) ==
    <<"-m", "pip_faster", "install", "--prune", "--upgrade">> \o pip_options

\* venv-update did not run its first step
NoFirstStep == [ran |-> FALSE, override |-> FALSE, args |-> <<>>, prune |-> <<>>]

\* no successful run of pip-faster came right before
NoPreviousRun == [ok |-> FALSE, required |-> <<>>, installed |-> NewEnvironment]

(***************************************************************************)
(* The world of PackageFinder.find_requirement: requirements with their    *)
(* specifiers, the find-links of the finder, the wheels in the wheelhouse. *)
(***************************************************************************)
\* pip's InstallRequirement as find_requirement sees it: req.name, whether
\* req.req is None (a URL-style requirement), req.req.specs, and the version
\* of the project that is installed (0: none)
InstallRequirement(name, specs, version) ==
    [name |-> name, req_is_None |-> FALSE, specs |-> specs, installed |-> version]
UrlInstallRequirement ==
    [name |-> "None", req_is_None |-> TRUE, specs |-> <<>>, installed |-> 0]

\* the specifier lists of the requirements looked up
SpecLists == { <<>>, << <<"==", 1>> >>, << <<"==", 2>> >>, << <<">=", 1>> >>,
               << <<">=", 2>>, <<"==", 1>> >> }

\* `version in req.req`: every specifier holds
VersionIn(version, specs) ==
    \A i \in DOMAIN specs :
        CASE specs[i][1] = "==" -> version = specs[i][2]
          [] specs[i][1] = ">=" -> version >= specs[i][2]

\* req.satisfied_by, as pip's check_if_exists sets it: the installed
\* version when it is in the requirement, else None (0)
satisfied_by(r) ==
    IF ~r.req_is_None /\ r.installed # 0 /\ VersionIn(r.installed, r.specs)
    THEN r.installed ELSE 0

\* the wheel files a directory can hold: the name and version of the file
\* name, and whether its tags are supported by the running interpreter
WheelFiles ==
    { [name |-> "pure_python_package", version |-> 1, supported |-> TRUE],
      [name |-> "pure_python_package", version |-> 1, supported |-> FALSE],
      [name |-> "pure_python_package", version |-> 2, supported |-> TRUE],
      [name |-> "a", version |-> 1, supported |-> TRUE] }

\* the values of self.find_links
FindLinks == { <<>>, <<"file://~/.pip/wheelhouse">>, <<"http://pypi/simple">>,
               <<"http://pypi/simple", "file://~/.pip/wheelhouse">> }

\* findlink.startswith('file://')
StartsWithFile(findlink) == findlink = "file://~/.pip/wheelhouse"

\* req.name.replace('-', '_')
replace_dash(name) ==
    IF name = "pure-python-package" THEN "pure_python_package" ELSE name

\* the calls of find_requirement that are looked at
Lookups ==
    [req : {InstallRequirement(n, sp, v) :
                n \in {"pure-python-package", "a"}, sp \in SpecLists, v \in 0..2}
           \cup {UrlInstallRequirement},
     upgrade : BOOLEAN,
     find_links : FindLinks,
     wheelhouse : SUBSET WheelFiles]

NoLookup == [req |-> UrlInstallRequirement, upgrade |-> FALSE, find_links |-> <<>>,
             wheelhouse |-> {}]
NoWheel == [name |-> "None", version |-> 0, supported |-> FALSE]
\* no call was made yet
NoAnswer == [kind |-> "pending", link |-> NoWheel, scanned |-> 0, delegated |-> FALSE]

(***************************************************************************)
(* Initial state: no environment, no scratch directory, no process.        *)
(***************************************************************************)
NoProcess ==
    /\ pc = "idle" /\ argv = <<>> /\ venv_path = "" /\ cur = "sys" /\ script = "orig"
    /\ children = 0 /\ exc = NoExc /\ raised = NoExc /\ exit_code = 0 /\ nl_venv_path = ""
    /\ venv_dir = FALSE /\ venv_py = 0 /\ venv_builds = {} /\ venv_mtime = 0
    /\ req_mtime = [f \in ReqFiles |-> 1]
    /\ scratch_py = 0 /\ scratch_lib = FALSE /\ scratch_copy = FALSE
    /\ execs = <<>> /\ marks = <<>> /\ out = {}
    /\ removed = FALSE /\ created = <<>> /\ kept = FALSE /\ reaped = 0 /\ waited = FALSE
    /\ ipc = "idle" /\ required = <<>> /\ previously_installed = {}
    /\ recently_installed = {} /\ working_set = NewEnvironment
    /\ queue = <<>> /\ result = <<>> /\ errors = FALSE /\ seen_warnings = {}
    /\ install_exit = -1 /\ installed = NewEnvironment /\ before = NewEnvironment
    /\ newly = {} /\ phases = <<>> /\ logged = <<>> /\ uninstalls = <<>>
    /\ previous_run = NoPreviousRun /\ first_step = NoFirstStep /\ unbuilt = {}
    /\ pip_pc = "idle" /\ pip_via = "" /\ find_requirement = "find_requirement"
    /\ unpatched = "absent" /\ InstallCommand_run = "run" /\ orig_installcommand = ""
    /\ pip_result = -1 /\ pip_exc = NoExc

Init == NoProcess /\ lookup = NoLookup /\ answer = NoAnswer

(***************************************************************************)
(* The user, between two invocations.                                      *)
(***************************************************************************)
\* a requirements file is rewritten
EditRequirements ==
    /\ pc = "idle"
    /\ \E f \in ReqFiles : SetTimes(venv_mtime, [req_mtime EXCEPT ![f] = Now])
    /\ UNCHANGED <<procvars, venv_dir, venv_py, venv_builds,
                   scratch_py, scratch_lib, scratch_copy, histvars>>
    /\ UNCHANGED <<instvars, findvars>>

\* the project directory, environment included, is moved to another place,
\* where the next invocation is run
MoveProject ==
    /\ pc = "idle" /\ venv_dir /\ venv_py # 0
    /\ \A b \in venv_builds : b.at = "here" /\ b.version = venv_py
    /\ venv_builds' = {[b EXCEPT !.at = "elsewhere"] : b \in venv_builds}
    /\ UNCHANGED <<procvars, venv_dir, venv_py, venv_mtime, req_mtime,
                   scratch_py, scratch_lib, scratch_copy, histvars>>
    /\ UNCHANGED <<instvars, findvars>>

\* venv-update is started: some interpreter runs some copy of the script
Invoke ==
    /\ pc = "idle"
    /\ \E a \in ArgLists, c \in {"sys", "dest"}, s \in {"orig", "scratch", "scratchlink"} :
        /\ exists(c) /\ exists(s)
        /\ argv' = a /\ cur' = c /\ script' = s
    \* a process started by exec from a process with children inherits them
    /\ children' \in 0..MaxChildren
    /\ pc' = "main"
    /\ UNCHANGED <<venv_path, exc, raised, exit_code, nl_venv_path, fsvars,
                   execs, marks, out, removed, created, kept, reaped, waited>>
    /\ UNCHANGED <<instvars, findvars>>

\* the process is gone; nothing of it is left but the file system
ReturnToShell ==
    /\ pc = "done" /\ pc' = "idle"
    /\ argv' = <<>> /\ venv_path' = "" /\ cur' = "sys" /\ script' = "orig"
    /\ children' = 0 /\ exc' = NoExc /\ raised' = NoExc /\ exit_code' = 0 /\ nl_venv_path' = ""
    /\ execs' = <<>> /\ marks' = <<>> /\ out' = {} /\ removed' = FALSE /\ created' = <<>>
    /\ kept' = FALSE /\ reaped' = 0 /\ waited' = FALSE
    /\ UNCHANGED <<fsvars>>
    /\ UNCHANGED <<instvars, findvars>>

(***************************************************************************)
(* main() and venv_update(args).                                           *)
(***************************************************************************)
\* an exception e leaves venv_update(args), which runs inside
\* raise_on_failure inside main()'s try
Raise(e) ==
    /\ exc' = RaiseOnFailure(e) /\ raised' = e
    /\ pc' = IF RaiseOnFailure(e) = NoExc THEN "mark_valid" ELSE "mark_invalid"

\* run(cmd) fails: the command exits non-zero, or the wait is interrupted
\* (the child may be left running)
RunFails ==
    \/ \E rc \in FailCodes : Raise(CalledProcessError(rc)) /\ children' = children
    \/ /\ Raise(KeyboardInterrupt)
       /\ children' \in (IF children < MaxChildren THEN {children, children + 1}
                                                  ELSE {children})

\* exec_(cmd): the process image is replaced; main() starts again
exec_(python, file, kind) ==
    /\ cur' = python /\ script' = file /\ pc' = "main"
    /\ venv_path' = "" /\ nl_venv_path' = "" /\ exc' = NoExc /\ raised' = NoExc
    /\ execs' = Append(execs, [from |-> cur, to |-> python, kind |-> kind,
                               sfrom |-> script, sto |-> file, env |-> venv_py])
    /\ UNCHANGED <<argv, children, exit_code>>

Main ==
    /\ pc = "main"
    /\ venv_path' = parseargs(argv)
    /\ pc' = "ei_venv"
    /\ UNCHANGED <<argv, cur, script, children, exc, raised, exit_code, nl_venv_path,
                   fsvars, histvars>>
    /\ UNCHANGED <<instvars, findvars>>

\* exec_intermediate_virtualenv: run(('virtualenv', intermediate_virtualenv))
IntermediateVirtualenv ==
    /\ pc = "ei_venv"
    /\ IF exists("inter")
       THEN /\ pc' = "ei_pip"
            /\ UNCHANGED <<scratch_py, exc, raised, children>>
       ELSE \/ /\ scratch_py' \in Versions
               /\ pc' = "ei_pip"
               /\ UNCHANGED <<exc, raised, children>>
            \/ RunFails /\ UNCHANGED scratch_py
    /\ UNCHANGED <<argv, venv_path, cur, script, exit_code, nl_venv_path,
                   venv_dir, venv_py, venv_builds, venv_mtime, req_mtime,
                   scratch_lib, scratch_copy, histvars>>
    /\ UNCHANGED <<instvars, findvars>>

\* exec_intermediate_virtualenv: run(('pip', 'install', '--target', scratch, 'virtualenv'))
IntermediatePipInstall ==
    /\ pc = "ei_pip"
    /\ IF scratch_lib
       THEN /\ pc' = "ei_cp"
            /\ UNCHANGED <<scratch_lib, exc, raised, children>>
       ELSE \/ /\ scratch_lib' = TRUE
               /\ pc' = "ei_cp"
               /\ UNCHANGED <<exc, raised, children>>
            \/ RunFails /\ UNCHANGED scratch_lib
    /\ UNCHANGED <<argv, venv_path, cur, script, exit_code, nl_venv_path,
                   venv_dir, venv_py, venv_builds, venv_mtime, req_mtime,
                   scratch_py, scratch_copy, histvars>>
    /\ UNCHANGED <<instvars, findvars>>

\* exec_intermediate_virtualenv: run(('cp', dotpy(__file__), venv_update))
IntermediateCopy ==
    /\ pc = "ei_cp"
    /\ IF scratch_copy
       THEN /\ pc' = "ei_exec"
            /\ UNCHANGED <<scratch_copy, exc, raised, children>>
       ELSE \/ /\ scratch_copy' = TRUE
               /\ pc' = "ei_exec"
               /\ UNCHANGED <<exc, raised, children>>
            \/ RunFails /\ UNCHANGED scratch_copy
    /\ UNCHANGED <<argv, venv_path, cur, script, exit_code, nl_venv_path,
                   venv_dir, venv_py, venv_builds, venv_mtime, req_mtime,
                   scratch_py, scratch_lib, histvars>>
    /\ UNCHANGED <<instvars, findvars>>

\* exec_intermediate_virtualenv: return when this script is the scratch copy,
\* else exec the scratch copy under the intermediate python
IntermediateExec ==
    /\ pc = "ei_exec"
    /\ IF samefile(script, "scratch")
       THEN /\ pc' = "adjust"
            /\ UNCHANGED <<argv, venv_path, cur, script, children, exc, raised, exit_code,
                           nl_venv_path, execs>>
       ELSE exec_("inter", "scratch", "intermediate")
    /\ UNCHANGED <<fsvars, marks, out, removed, created, kept, reaped, waited>>
    /\ UNCHANGED <<instvars, findvars>>

\* ensure_virtualenv: must the process replace itself before creating?
NeedsExec_Never(current_python, source_python) == FALSE
NeedsExec(current_python, source_python) == ~samefile(current_python, source_python)

\* ensure_virtualenv: is an environment found at destination_python removed?
RemovesOld(destination_python) == exists(destination_python)

\* adjust_options, up to the version comparison (called by virtualenv.main
\* inside raise_on_failure)
AdjustOptions ==
    /\ pc = "adjust"
    /\ nl_venv_path' = AdjustVenvPath(argv)
    /\ LET source_python == SourcePython(argv, cur)
           source_version == get_python_version(source_python)
           destination_version == get_python_version(DestinationPython)
       IN  \/ /\ source_version = destination_version
              \* raise SystemExit(0): looks good! we're done here.
              /\ kept' = TRUE
              /\ IF RaiseOnFailure(SystemExit(0)) = NoExc
                 THEN pc' = "venv_python" /\ exc' = exc /\ raised' = raised
                 ELSE Raise(RaiseOnFailure(SystemExit(0)))
              /\ children' = children
           \/ /\ source_version # destination_version
              /\ pc' = IF RemovesOld(DestinationPython) THEN "rm" ELSE "samefile"
              /\ UNCHANGED <<kept, exc, raised, children>>
           \/ \* get_python_version: the interpreter exits non-zero
              /\ RunFails
              /\ kept' = kept
    /\ UNCHANGED <<argv, venv_path, cur, script, exit_code, fsvars,
                   execs, marks, out, removed, created, reaped, waited>>
    /\ UNCHANGED <<instvars, findvars>>

\* adjust_options: info('Removing invalidated virtualenv.'); run(('rm', '-rf', venv_path))
RemoveInvalidated ==
    /\ pc = "rm"
    /\ out' = out \cup {"Removing invalidated virtualenv."}
    /\ \/ /\ venv_dir' = FALSE /\ venv_py' = 0 /\ venv_builds' = {}
          /\ SetTimes(0, req_mtime)
          /\ removed' = TRUE
          /\ pc' = "samefile"
          /\ UNCHANGED <<exc, raised, children>>
       \/ \* rm exits non-zero, having removed nothing or part of the tree
          /\ RunFails
          /\ venv_py' \in {venv_py, 0}
          /\ UNCHANGED <<venv_dir, venv_builds, venv_mtime, req_mtime, removed>>
    /\ UNCHANGED <<argv, venv_path, cur, script, exit_code, nl_venv_path,
                   scratch_py, scratch_lib, scratch_copy,
                   execs, marks, created, kept, reaped, waited>>
    /\ UNCHANGED <<instvars, findvars>>

\* adjust_options: if not samefile(current_python, source_python): exec_(...)
ReexecUnderSource ==
    /\ pc = "samefile"
    /\ IF NeedsExec(cur, SourcePython(argv, cur))
       THEN exec_(SourcePython(argv, cur), script, "source")
       ELSE /\ pc' = "create"
            /\ UNCHANGED <<argv, venv_path, cur, script, children, exc, raised, exit_code,
                           nl_venv_path, execs>>
    /\ UNCHANGED <<fsvars, marks, out, removed, created, kept, reaped, waited>>
    /\ UNCHANGED <<instvars, findvars>>

\* virtualenv.main goes on after adjust_options returned: the environment is
\* created from the source interpreter, in the directory as it is
CreateEnvironment ==
    /\ pc = "create"
    /\ created' = Append(created, [cur |-> cur, source |-> SourcePython(argv, cur)])
    /\ LET v == get_python_version(SourcePython(argv, cur))
       IN  \/ /\ venv_dir' = TRUE /\ venv_py' = v /\ venv_builds' = Written(venv_builds, Build(v, argv))
              /\ touch(<<>>)
              /\ pc' = "venv_python"
              /\ UNCHANGED <<exc, raised, children>>
           \/ \* creation fails before anything was written
              /\ \/ RunFails
                 \/ Raise(OtherException) /\ children' = children
              /\ UNCHANGED <<venv_dir, venv_py, venv_builds, venv_mtime, req_mtime>>
           \/ \* creation fails, leaving a directory without bin/python
              /\ \/ RunFails
                 \/ Raise(OtherException) /\ children' = children
              /\ venv_dir' = TRUE /\ venv_builds' = Written(venv_builds, Build(v, argv))
              /\ touch(<<>>)
              /\ UNCHANGED venv_py
    /\ UNCHANGED <<argv, venv_path, cur, script, exit_code, nl_venv_path,
                   scratch_py, scratch_lib, scratch_copy,
                   execs, marks, out, removed, kept, reaped, waited>>
    /\ UNCHANGED <<instvars, findvars>>

\* venv_update: python = venv_python(venv_path); if not exists(python): return '...'
CheckPython ==
    /\ pc = "venv_python"
    /\ IF ~exists(DestinationPython)
       THEN Raise(ErrorString)
       ELSE pc' = "pip_install" /\ exc' = exc /\ raised' = raised
    /\ UNCHANGED <<argv, venv_path, cur, script, children, exit_code, nl_venv_path,
                   fsvars, histvars>>
    /\ UNCHANGED <<instvars, findvars>>

\* venv_update: run(pip_install + args)
PipInstall ==
    /\ pc = "pip_install"
    /\ \/ pc' = "pip_faster" /\ UNCHANGED <<exc, raised, children>>
       \/ RunFails
    /\ UNCHANGED <<argv, venv_path, cur, script, exit_code, nl_venv_path,
                   fsvars, histvars>>
    /\ UNCHANGED <<instvars, findvars>>

\* venv_update: run((python, '-m', 'pip_faster', 'install', '--prune', '--upgrade') + pip_options)
PipFaster ==
    /\ pc = "pip_faster"
    /\ \/ pc' = "mark_valid" /\ UNCHANGED <<exc, raised, children>>
       \/ RunFails
    /\ UNCHANGED <<argv, venv_path, cur, script, exit_code, nl_venv_path,
                   fsvars, histvars>>
    /\ UNCHANGED <<instvars, findvars>>

(***************************************************************************)
(* The validity marker.                                                    *)
(***************************************************************************)
\* wait_for_all_subprocesses: os.wait() raises "no child processes"
WaitReturns_AtOnce(n) == TRUE
WaitReturns(n) == n = 0

\* mark_venv_invalid: is the timestamp written at all?
MarksInvalid_Never(path) == FALSE
MarksInvalid_Always(path) == TRUE
MarksInvalid(path) == path # "" /\ isdir(path)

\* wait_for_all_subprocesses(), in mark_venv_valid and in mark_venv_invalid
WaitForAllSubprocesses ==
    /\ pc \in {"mark_valid", "invalid_wait"}
    /\ IF WaitReturns(children)
       THEN /\ pc' = IF pc = "mark_valid" THEN "valid_touch" ELSE "invalid_touch"
            /\ waited' = TRUE
            /\ UNCHANGED <<children, reaped>>
       ELSE /\ children' = children - 1
            /\ reaped' = reaped + 1
            /\ UNCHANGED <<pc, waited>>
    /\ UNCHANGED <<argv, venv_path, cur, script, exc, raised, exit_code, nl_venv_path,
                   fsvars, execs, marks, out, removed, created, kept>>
    /\ UNCHANGED <<instvars, findvars>>

\* mark_venv_valid: touch(venv_path, None), then main() returns
MarkVenvValid ==
    /\ pc = "valid_touch"
    /\ pc' = "done"
    /\ IF isdir(venv_path)
       THEN /\ touch(<<>>)
            /\ marks' = Append(marks, "valid")
            /\ exit_code' = 0 /\ exc' = exc /\ raised' = raised
       ELSE \* venv_path is not the environment: utime succeeds on that file,
            \* or raises OSError out of main()
            /\ \/ marks' = Append(marks, "valid-other") /\ exit_code' = 0
               \/ marks' = marks /\ exit_code' = 1
            /\ exc' = exc /\ raised' = raised
            /\ UNCHANGED <<venv_mtime, req_mtime>>
    /\ UNCHANGED <<argv, venv_path, cur, script, children, nl_venv_path,
                   venv_dir, venv_py, venv_builds,
                   scratch_py, scratch_lib, scratch_copy,
                   execs, out, removed, created, kept, reaped, waited>>
    /\ UNCHANGED <<instvars, findvars>>

\* mark_venv_invalid: the LBYL test
MarkVenvInvalid ==
    /\ pc = "mark_invalid"
    /\ pc' = IF MarksInvalid(venv_path) THEN "invalid_wait" ELSE "reraise"
    /\ UNCHANGED <<argv, venv_path, cur, script, children, exc, raised, exit_code, nl_venv_path,
                   fsvars, histvars>>
    /\ UNCHANGED <<instvars, findvars>>

\* mark_venv_invalid: touch(venv_path, 0)
TouchInvalid ==
    /\ pc = "invalid_touch"
    /\ pc' = "reraise"
    /\ touch(<<0>>)
    /\ marks' = Append(marks, "invalid")
    /\ UNCHANGED <<argv, venv_path, cur, script, children, exc, raised, exit_code, nl_venv_path,
                   venv_dir, venv_py, venv_builds,
                   scratch_py, scratch_lib, scratch_copy,
                   execs, out, removed, created, kept, reaped, waited>>
    /\ UNCHANGED <<instvars, findvars>>

\* main(): raise, after mark_venv_invalid: the process ends with the exception
Reraise ==
    /\ pc = "reraise"
    /\ pc' = "done"
    /\ exit_code' = exc.code
    /\ UNCHANGED <<argv, venv_path, cur, script, children, exc, raised, nl_venv_path,
                   fsvars, histvars>>
    /\ UNCHANGED <<instvars, findvars>>

Next ==
    \/ EditRequirements
    \/ MoveProject
    \/ Invoke
    \/ ReturnToShell
    \/ Main
    \/ IntermediateVirtualenv
    \/ IntermediatePipInstall
    \/ IntermediateCopy
    \/ IntermediateExec
    \/ AdjustOptions
    \/ RemoveInvalidated
    \/ ReexecUnderSource
    \/ CreateEnvironment
    \/ CheckPython
    \/ PipInstall
    \/ PipFaster
    \/ WaitForAllSubprocesses
    \/ MarkVenvValid
    \/ MarkVenvInvalid
    \/ TouchInvalid
    \/ Reraise

Spec == Init /\ [][Next]_vars

(***************************************************************************)
(* pip-faster: do_install(reqs) and main().                                *)
(***************************************************************************)
venvvars == <<procvars, fsvars, histvars>>

ToSet(seq) == {seq[i] : i \in DOMAIN seq}

\* a pkg_resources distribution of the working set ws
Dist(k, ws) == [key |-> k, project_name |-> ProjectName(k), version |-> ws[k]]

\* dist_to_req(dist): the FrozenRequirement is named by dist.key
dist_to_req(dist) ==
    [name |-> dist.key, key |-> dist.key, spec |-> dist.version, url |-> ""]

\* pip_get_installed()
pip_get_installed(ws) == {dist_to_req(Dist(k, ws)) : k \in {p \in Packages : ws[p] # 0}}

\* reqnames(reqs)
reqnames(reqs) == {req.name : req \in reqs}

\* sorted(names)
sorted_Reversed(names) ==
    LET up == SelectSeq(SortedKeys, LAMBDA k : k \in names)
    IN  [i \in 1..Len(up) |-> up[Len(up) + 1 - i]]
sorted(names) == SelectSeq(SortedKeys, LAMBDA k : k \in names)

\* do_install: the stage1 bootstrap packages
bootstrap_packages_None == {}
bootstrap_packages == {"pip", "setuptools", "wheel"}

\* do_install: the extraneous set
extraneous(previous, required_with_deps, recent) ==
    ((reqnames(previous) \ reqnames(required_with_deps)) \ reqnames(recent))
        \ bootstrap_packages

\* trace_requirements: if errors: exit(1)
TraceExits_Never(errs) == FALSE
TraceExits_OnSuccess(errs) == ~errs
TraceExits(errs) == errs

\* `pip install --upgrade` on the requirements todo, as pip's requirement set
\* works: the first requirement of a name wins, a URL is always installed
\* again and learns its name from the metadata, a named requirement is
\* installed when the version at hand is not the wanted one; the
\* dependencies of what is installed are added (with deep: also those of
\* what is already up to date, which pip versions differ on).
RECURSIVE PipResolve(_, _, _, _, _)
PipResolve(todo, inst, reqset, new, deep) ==
    IF todo = <<>>
    THEN [installed |-> inst, requirements |-> reqset, newly |-> new]
    ELSE LET r == Head(todo)
             named == IF r.url # ""
                      THEN [name |-> ProjectName(r.url), key |-> r.url,
                            spec |-> 0, url |-> r.url]
                      ELSE r
             k == named.key
             target == IF named.spec # 0 THEN named.spec ELSE LatestVersion(k)
             install == r.url # "" \/ inst[k] # target
         IN  IF k \in {x.key : x \in reqset}
             THEN PipResolve(Tail(todo), inst, reqset, new, deep)
             ELSE PipResolve(
                    Tail(todo) \o (IF install \/ deep THEN requires(k, target) ELSE <<>>),
                    IF install THEN [inst EXCEPT ![k] = target] ELSE inst,
                    reqset \cup {named},
                    IF install THEN new \cup {k} ELSE new,
                    deep)

\* pip_install(args): successfully_installed.requirements.values(); pip
\* versions differ on whether requirements already satisfied are in it
pip_install(outcome, every) ==
    IF every THEN outcome.requirements
    ELSE {x \in outcome.requirements : x.key \in outcome.newly}

\* the results pipmodule.main() can give
PipCodes == {0} \cup PipFailCodes

\* pip(args): if result != 0: exit(result)
PipExits_Never(code) == FALSE
PipExits(code) == code # 0

\* do_install: the options of the pip commands
pip_wheels == "~/.pip/wheelhouse"
cache_opts == <<"--download-cache=~/.pip/cache", "--find-links=file://" \o pip_wheels>>
install_opts == <<"--upgrade", "--use-wheel">> \o cache_opts
wheel_opts == <<"--wheel-dir=" \o pip_wheels>> \o cache_opts
\* install_opts += ('--no-index',)
phase3_opts_Unchanged == install_opts
phase3_opts == install_opts \o <<"--no-index">>

\* one call of pip(args) and its result, as the run's history keeps it
PipCall(cmd, opts, what, rc) ==
    [cmd |-> cmd, opts |-> opts, no_index |-> "--no-index" \in ToSet(opts),
     what |-> what, rc |-> rc]

\* exit(rc) inside do_install: main() returns the code
Exit(rc) == ipc' = "done" /\ install_exit' = rc

\* packages are installed, removed or changed by hand between two runs
EnvChange ==
    /\ ipc = "idle"
    /\ \E k \in Packages \ {"pip", "setuptools", "pip-faster", "virtualenv", "c"},
          v \in 0..2 :
        /\ v <= LatestVersion(k) /\ v # installed[k]
        /\ installed' = [installed EXCEPT ![k] = v]
    /\ previous_run' = NoPreviousRun /\ first_step' = NoFirstStep
    /\ UNCHANGED <<ipc, required, previously_installed, recently_installed, working_set,
                   queue, result, errors, seen_warnings, install_exit,
                   before, newly, phases, logged, uninstalls, unbuilt, venvvars, findvars>>

\* venv_update: run(pip_install + args), then the command line of the second
\* run, in an environment that has no pip-faster.  (pip install without
\* --upgrade: in a world where no installed package is older than the newest
\* version of it that fits, it installs what --upgrade installs.)
InstallPipFaster ==
    /\ ipc = "idle" /\ installed["pip-faster"] = 0
    /\ \E override \in BOOLEAN :
        LET args == first_step_args(override)
            reqs == IF args = <<"-r", VENV_UPDATE_REQS_OVERRIDE>>
                    THEN OverrideFile
                    ELSE <<Requirement("pip-faster", 1)>>
        IN  /\ installed' = PipResolve(reqs, installed, {}, {}, TRUE).installed
            /\ first_step' = [ran |-> TRUE, override |-> override, args |-> args,
                              prune |-> prune_step(DefaultPipArgs)]
    /\ previous_run' = NoPreviousRun
    /\ UNCHANGED <<ipc, required, previously_installed, recently_installed, working_set,
                   queue, result, errors, seen_warnings, install_exit,
                   before, newly, phases, logged, uninstalls, unbuilt, venvvars, findvars>>

\* do_install: previously_installed, required, recently_installed = []
DoInstall ==
    /\ ipc = "idle"
    /\ previously_installed' = pip_get_installed(installed)
    /\ required' \in RequirementFiles
    /\ recently_installed' = {}
    /\ before' = installed
    /\ ipc' = "phase1"
    /\ UNCHANGED <<working_set, queue, result, errors, seen_warnings, install_exit,
                   installed, newly, phases, logged, uninstalls, previous_run, first_step, unbuilt, venvvars, findvars>>

\* 1) recently_installed += pip_install(install_opts + BOOTSTRAP_VERSIONS)
Phase1Bootstrap ==
    /\ ipc = "phase1"
    /\ \E rc \in PipCodes :
        /\ phases' = Append(phases, PipCall("install", install_opts, "bootstrap", rc))
        /\ IF PipExits(rc)
           THEN /\ Exit(rc)
                /\ UNCHANGED <<installed, newly, recently_installed>>
           ELSE /\ ipc' = "phase2"
                /\ UNCHANGED install_exit
                /\ IF rc # 0
                   THEN \* successfully_installed is None: return []
                        UNCHANGED <<installed, newly, recently_installed>>
                   ELSE \E deep \in BOOLEAN, every \in BOOLEAN :
                        LET outcome == PipResolve(BOOTSTRAP_VERSIONS, installed, {}, {}, deep)
                        IN  /\ installed' = outcome.installed
                            /\ newly' = newly \cup outcome.newly
                            /\ recently_installed' =
                                    recently_installed \cup pip_install(outcome, every)
    /\ UNCHANGED <<required, previously_installed, working_set, queue, result, errors,
                   seen_warnings, before, logged, uninstalls, previous_run, first_step, unbuilt, venvvars, findvars>>

\* what `pip wheel` can fail to build: nothing, or one of the named
\* requirements
BuildFailures(reqs) == {{}} \cup {{r.key} : r \in {x \in ToSet(reqs) : x.url = ""}}

\* 2) pip(('wheel', ...) + BOOTSTRAP_VERSIONS + cache_opts + requirements_as_options)
\* (pip versions differ on the result of `pip wheel` when a build failed)
Phase2Wheel ==
    /\ ipc = "phase2"
    /\ \E rc \in PipCodes, failed \in BuildFailures(required) :
        /\ phases' = Append(phases, PipCall("wheel", wheel_opts, "bootstrap+requirements", rc))
        /\ unbuilt' = failed
        /\ IF PipExits(rc)
           THEN Exit(rc)
           ELSE ipc' = "phase3" /\ UNCHANGED install_exit
    /\ UNCHANGED <<required, previously_installed, recently_installed, working_set,
                   queue, result, errors, seen_warnings,
                   installed, before, newly, logged, uninstalls, previous_run, first_step,
                   venvvars, findvars>>

\* `pip install --no-index --find-links=<wheelhouse>` finds no distribution
\* at all for a requirement without a wheel: the command fails
NoDistributionFound(missing) == missing # {}

\* 3) install_opts += ('--no-index',);
\*    recently_installed += pip_install(install_opts + requirements_as_options)
Phase3Install ==
    /\ ipc = "phase3"
    /\ \E rc \in PipCodes :
        /\ NoDistributionFound(unbuilt) => rc # 0
        /\ phases' = Append(phases, PipCall("install", phase3_opts, "requirements", rc))
        /\ IF PipExits(rc)
           THEN /\ Exit(rc)
                /\ UNCHANGED <<installed, newly, recently_installed>>
           ELSE /\ ipc' = "trace"
                /\ UNCHANGED install_exit
                /\ IF rc # 0
                   THEN UNCHANGED <<installed, newly, recently_installed>>
                   ELSE \E deep \in BOOLEAN, every \in BOOLEAN :
                        LET outcome == PipResolve(required, installed, {}, {}, deep)
                        IN  /\ installed' = outcome.installed
                            /\ newly' = newly \cup outcome.newly
                            /\ recently_installed' =
                                    recently_installed \cup pip_install(outcome, every)
    /\ UNCHANGED <<required, previously_installed, working_set, queue, result, errors,
                   seen_warnings, before, logged, uninstalls, previous_run, first_step, unbuilt, venvvars, findvars>>

\* trace_requirements: if dist is None
DistIsNone_Never(version) == FALSE
DistIsNone(version) == version = 0

\* result.append(x); of a list that grows without end only the first
\* MaxResult entries are kept
Record(list, x) == IF Len(list) < MaxResult THEN Append(list, x) ELSE list

\* trace_requirements(required), up to the loop
TraceRequirements ==
    /\ ipc = "trace"
    /\ working_set' = installed
    /\ queue' = required
    /\ result' = <<>>
    /\ errors' = FALSE
    /\ seen_warnings' = {}
    /\ ipc' = "trace_loop"
    /\ UNCHANGED <<required, previously_installed, recently_installed, install_exit,
                   installed, before, newly, phases, logged, uninstalls, previous_run, first_step, unbuilt,
                   venvvars, findvars>>

\* trace_requirements: one turn of `while queue`
TraceStep ==
    /\ ipc = "trace_loop" /\ queue # <<>>
    /\ LET req == Head(queue)
           version == IF req.key = "None" THEN 0 ELSE working_set[req.key]
           conflict == version # 0 /\ ~Satisfies(version, req.spec)
           report == conflict /\ req.name \notin seen_warnings
       IN  IF req.key = "None"
           THEN \* a file:/// requirement
                /\ queue' = Tail(queue)
                /\ UNCHANGED <<result, errors, seen_warnings, logged>>
           ELSE IF DistIsNone(version)
           THEN \* working_set.find gave None: unmet dependency
                /\ queue' = Tail(queue)
                /\ errors' = TRUE
                /\ logged' = Append(logged, [kind |-> "unmet", name |-> req.name,
                                             dist |-> "None"])
                /\ UNCHANGED <<result, seen_warnings>>
           ELSE /\ errors' = (errors \/ report)
                /\ seen_warnings' = IF report THEN seen_warnings \cup {req.name}
                                              ELSE seen_warnings
                /\ logged' = IF report
                             THEN Append(logged, [kind |-> "conflict", name |-> req.name,
                                                  dist |-> req.key])
                             ELSE logged
                /\ result' = Record(result, dist_to_req(Dist(req.key, working_set)))
                /\ queue' = Tail(queue) \o requires(req.key, version)
    /\ UNCHANGED <<ipc, required, previously_installed, recently_installed, working_set,
                   install_exit, installed, before, newly, phases, uninstalls, previous_run, first_step, unbuilt,
                   venvvars, findvars>>

\* trace_requirements: the queue is empty: exit(1) on errors, else return result
TraceReturn ==
    /\ ipc = "trace_loop" /\ queue = <<>>
    /\ IF TraceExits(errors)
       THEN Exit(1)
       ELSE ipc' = "prune" /\ UNCHANGED install_exit
    /\ UNCHANGED <<required, previously_installed, recently_installed, working_set,
                   queue, result, errors, seen_warnings,
                   installed, before, newly, phases, logged, uninstalls, previous_run, first_step, unbuilt,
                   venvvars, findvars>>

\* do_install: extraneous = ...; if extraneous: pip(('uninstall', '--yes') + ...);
\* then do_install returns and main() returns its None
Prune ==
    /\ ipc = "prune"
    /\ LET names == extraneous(previously_installed, ToSet(result), recently_installed)
       IN  IF names # {}
           THEN /\ uninstalls' = Append(uninstalls, sorted(names))
                /\ \E rc \in PipCodes :
                    /\ phases' = Append(phases, PipCall("uninstall", <<"--yes">>,
                                                        "extraneous", rc))
                    /\ installed' = IF rc = 0
                                    THEN [k \in Packages |->
                                            IF k \in names THEN 0 ELSE installed[k]]
                                    ELSE installed
                    /\ IF PipExits(rc) THEN Exit(rc) ELSE Exit(0)
           ELSE /\ Exit(0)
                /\ UNCHANGED <<installed, phases, uninstalls>>
    /\ UNCHANGED <<required, previously_installed, recently_installed, working_set,
                   queue, result, errors, seen_warnings,
                   before, newly, logged, previous_run, first_step, unbuilt, venvvars, findvars>>

\* the pip-faster process is gone; site-packages stays
FinishInstall ==
    /\ ipc = "done" /\ ipc' = "idle"
    /\ required' = <<>> /\ previously_installed' = {} /\ recently_installed' = {}
    /\ working_set' = NewEnvironment /\ queue' = <<>> /\ result' = <<>>
    /\ errors' = FALSE /\ seen_warnings' = {} /\ install_exit' = -1
    /\ before' = NewEnvironment /\ newly' = {} /\ phases' = <<>> /\ logged' = <<>>
    /\ uninstalls' = <<>>
    /\ previous_run' = IF install_exit = 0
                       THEN [ok |-> TRUE, required |-> required, installed |-> installed]
                       ELSE NoPreviousRun
    /\ first_step' = NoFirstStep /\ unbuilt' = {}
    /\ UNCHANGED <<installed, venvvars, findvars>>

NextInstall ==
    \/ EnvChange
    \/ InstallPipFaster
    \/ DoInstall
    \/ Phase1Bootstrap
    \/ Phase2Wheel
    \/ Phase3Install
    \/ TraceRequirements
    \/ TraceStep
    \/ TraceReturn
    \/ Prune
    \/ FinishInstall

SpecInstall == Init /\ [][NextInstall]_vars

\* trace_requirements is one sequential loop of one process: a turn that can
\* be taken is taken, and the function returns once the queue is empty
SpecTrace == SpecInstall /\ WF_vars(TraceStep) /\ WF_vars(TraceReturn)

(***************************************************************************)
(* pip_faster.faster_find_requirement(self, req, upgrade).                 *)
(***************************************************************************)
\* req_is_absolute(requirement)
req_is_absolute_Always(r) == TRUE
req_is_absolute(r) ==
    IF r.req_is_None
    THEN FALSE     \* url-style requirement
    ELSE \E i \in DOMAIN r.specs : r.specs[i][1] = "=="

\* if req.satisfied_by: the short circuit for an installed distribution
ShortCircuits_Never(r) == FALSE
ShortCircuits(r) == satisfied_by(r) # 0

\* glob(join(findlink, reqname + '-*.whl')): the files of the directory
\* whose name part is reqname
glob(directory, reqname) == {wheel \in directory : wheel.name = reqname}

\* the directories of self.find_links that are scanned
LocalLinks(find_links) == SelectSeq(find_links, StartsWithFile)

\* the answers the call can give; which of several fitting wheels of one
\* directory comes first is up to the order glob lists them in
faster_find_requirement(r, upgrade, find_links, directory) ==
    LET delegate(n) == {[kind |-> "find_requirement", link |-> NoWheel, scanned |-> n,
                         delegated |-> TRUE]}
    IN  IF req_is_absolute(r)
        THEN IF ShortCircuits(r)
             THEN {[kind |-> IF upgrade THEN "BestVersionAlreadyInstalled" ELSE "None",
                    link |-> NoWheel, scanned |-> 0, delegated |-> FALSE]}
             ELSE LET fitting == {wheel \in glob(directory, replace_dash(r.name)) :
                                    VersionIn(wheel.version, r.specs) /\ wheel.supported}
                      n == Len(LocalLinks(find_links))
                  IN  IF n > 0 /\ fitting # {}
                      THEN {[kind |-> "link", link |-> wheel, scanned |-> 1,
                             delegated |-> FALSE] : wheel \in fitting}
                      ELSE delegate(n)
        ELSE delegate(0)

\* pip asks the finder for a requirement
FindRequirement ==
    /\ answer.kind = "pending"
    /\ answer' \in faster_find_requirement(lookup.req, lookup.upgrade, lookup.find_links,
                                           lookup.wheelhouse)
    /\ UNCHANGED <<lookup, venvvars, instvars, patchvars>>

\* pip goes on to the next requirement, with the same finder and files
NextRequirement ==
    /\ answer.kind # "pending"
    /\ \E l \in Lookups :
        /\ l.find_links = lookup.find_links /\ l.wheelhouse = lookup.wheelhouse
        /\ l.upgrade = lookup.upgrade
        /\ lookup' = l
    /\ answer' = NoAnswer
    /\ UNCHANGED <<venvvars, instvars, patchvars>>

NextFind ==
    \/ FindRequirement
    \/ NextRequirement

\* the call's inputs are drawn from the lookups above
InitFind == NoProcess /\ lookup \in Lookups /\ answer = NoAnswer

SpecFind == InitFind /\ [][NextFind]_vars

(***************************************************************************)
(* pip_faster: one in-process pip call, pip(args) or pip_install(args),    *)
(* with the two monkeypatches around pipmodule.main.                       *)
(***************************************************************************)
\* how pipmodule.main(list(args)) can leave: it returns a result, or an
\* exception goes through it
MainOutcomes ==
    {NoExc, OtherException, KeyboardInterrupt} \cup {SystemExit(c) : c \in PipCodes}

\* try: ... finally: the finally block runs however the body is left
FinallyRuns_OnReturn(e) == e = NoExc
FinallyRuns(e) == TRUE

\* PackageFinder.find_requirement as pip ships it
original_find_requirement(r) ==
    {[kind |-> "find_requirement", link |-> NoWheel, scanned |-> 0, delegated |-> FALSE]}

\* where the call goes on after pip() is left
AfterPip == IF pip_via = "pip_install" THEN "install_finally" ELSE "left"

\* pip_install(args), up to pip(('install',) + args)
CallPipInstall ==
    /\ pip_pc = "idle"
    /\ orig_installcommand' = InstallCommand_run
    /\ InstallCommand_run' = "install"
    /\ pip_via' = "pip_install"
    /\ pip_pc' = "pip"
    /\ UNCHANGED <<find_requirement, unpatched, pip_result, pip_exc, lookup, answer,
                   venvvars, instvars>>

\* pip(args), called by do_install itself (wheel, uninstall)
CallPip ==
    /\ pip_pc = "idle"
    /\ pip_via' = "pip"
    /\ pip_pc' = "pip"
    /\ UNCHANGED <<find_requirement, unpatched, InstallCommand_run, orig_installcommand,
                   pip_result, pip_exc, lookup, answer, venvvars, instvars>>

\* faster_pip_packagefinder, up to the yield
EnterPatch ==
    /\ pip_pc = "pip"
    /\ unpatched' = find_requirement
    /\ find_requirement' = "faster_find_requirement"
    /\ pip_pc' = "main"
    /\ UNCHANGED <<pip_via, InstallCommand_run, orig_installcommand, pip_result, pip_exc,
                   lookup, answer, venvvars, instvars>>

\* the lookups of a finder made with do_install's options: --upgrade, the
\* wheelhouse as the one find-link, the wheelhouse empty or full
PipCallLookups ==
    {l \in Lookups : /\ l.upgrade /\ l.find_links = <<"file://~/.pip/wheelhouse">>
                     /\ l.wheelhouse \in {{}, WheelFiles}}

\* code of this process calls finder.find_requirement(req, upgrade): inside
\* pipmodule.main, or any time after
UseFinder ==
    /\ pip_pc \in {"main", "idle"}
    /\ \E l \in PipCallLookups :
        /\ lookup' = l
        /\ answer' \in IF find_requirement = "faster_find_requirement"
                       THEN faster_find_requirement(l.req, l.upgrade, l.find_links,
                                                    l.wheelhouse)
                       ELSE original_find_requirement(l.req)
    /\ UNCHANGED <<patchvars, venvvars, instvars>>

\* pipmodule.main(list(args)) is left
MainLeaves ==
    /\ pip_pc = "main"
    /\ \E e \in MainOutcomes :
        /\ pip_exc' = e
        /\ pip_result' \in IF e = NoExc THEN PipCodes ELSE {-1}
    /\ pip_pc' = "finally"
    /\ lookup' = NoLookup /\ answer' = NoAnswer
    /\ UNCHANGED <<pip_via, find_requirement, unpatched, InstallCommand_run,
                   orig_installcommand, venvvars, instvars>>

\* faster_pip_packagefinder: finally: restore find_requirement, del unpatched
LeavePatch ==
    /\ pip_pc = "finally"
    /\ IF FinallyRuns(pip_exc)
       THEN find_requirement' = unpatched /\ unpatched' = "absent"
       ELSE UNCHANGED <<find_requirement, unpatched>>
    /\ pip_pc' = IF pip_exc = NoExc THEN "check" ELSE AfterPip
    /\ UNCHANGED <<pip_via, InstallCommand_run, orig_installcommand, pip_result, pip_exc,
                   lookup, answer, venvvars, instvars>>

\* pip(): if result != 0: exit(result)
CheckResult ==
    /\ pip_pc = "check"
    /\ pip_exc' = IF PipExits(pip_result) THEN SystemExit(pip_result) ELSE pip_exc
    /\ pip_pc' = AfterPip
    /\ UNCHANGED <<pip_via, find_requirement, unpatched, InstallCommand_run,
                   orig_installcommand, pip_result, lookup, answer, venvvars, instvars>>

\* pip_install: finally: InstallCommand.run = orig_installcommand['run']
InstallFinally ==
    /\ pip_pc = "install_finally"
    /\ InstallCommand_run' = orig_installcommand
    /\ pip_pc' = "left"
    /\ UNCHANGED <<pip_via, find_requirement, unpatched, orig_installcommand,
                   pip_result, pip_exc, lookup, answer, venvvars, instvars>>

\* the call is over: its locals are gone, the classes stay as they were left
CallOver ==
    /\ pip_pc = "left"
    /\ pip_pc' = "idle" /\ pip_via' = "" /\ orig_installcommand' = ""
    /\ pip_result' = -1 /\ pip_exc' = NoExc
    /\ UNCHANGED <<find_requirement, unpatched, InstallCommand_run, lookup, answer,
                   venvvars, instvars>>

NextPatch ==
    \/ CallPipInstall
    \/ CallPip
    \/ EnterPatch
    \/ UseFinder
    \/ MainLeaves
    \/ LeavePatch
    \/ CheckResult
    \/ InstallFinally
    \/ CallOver

SpecPatch == Init /\ [][NextPatch]_vars

(***************************************************************************)
(* Properties of venv_update.main().                                       *)
(***************************************************************************)
Done == pc = "done"
Succeeded == Done /\ exit_code = 0
Failed == Done /\ exit_code # 0
NewerThanRequirements == \A f \in ReqFiles : req_mtime[f] < venv_mtime
OlderThanRequirements == \A f \in ReqFiles : venv_mtime < req_mtime[f]
\* parseargs and virtualenv agree on the environment directory
ArgsAgree == parseargs(argv) = AdjustVenvPath(argv)

\* C1: after a successful run the environment directory is newer than every
\* requirements file; after a failed run that leaves the directory in place
\* it is older than every requirements file.
C1_MarkerFollowsOutcome ==
    /\ Succeeded => venv_dir /\ NewerThanRequirements
    /\ Failed /\ venv_dir => OlderThanRequirements

\* C1 for the argument lists on which parseargs finds the directory that
\* virtualenv uses.
C1_WhenArgsAgree == (Done /\ ArgsAgree) => C1_MarkerFollowsOutcome

\* C2: when venv_update(args) raises inside main() and the environment
\* directory exists, its timestamp is set to the epoch, the process ends in
\* failure and the timestamp is not set forward in that run.
C2_FailureMarksInvalid ==
    (Done /\ exc # NoExc /\ venv_dir) =>
        /\ venv_mtime = 0
        /\ exit_code # 0
        /\ marks = <<"invalid">>

C2_WhenArgsAgree == (Done /\ ArgsAgree) => C2_FailureMarksInvalid

\* C3: the timestamp is written, forward or backward, only after
\* wait_for_all_subprocesses has returned, with no child process left.
C3_TouchOnlyAfterWait ==
    (pc \in {"valid_touch", "invalid_touch"} \/ marks # <<>>) =>
        (waited /\ children = 0)

\* a timestamp was written in each direction after children were waited for
C3_Witness == marks # <<>> /\ reaped > 0 /\ marks[1] = "valid"
C3_WitnessInvalid == marks = <<"invalid">> /\ reaped > 0

KeepingMessage == "Keeping virtualenv from previous run."
RemovingMessage == "Removing invalidated virtualenv."

\* C7: an environment found with another version is removed entirely before
\* the new one is created, the new one has the source interpreter's version,
\* and no environment mixes the files of two builds.
C7_RebuildIsClean ==
    /\ (pc = "create" /\ RemovingMessage \in out) => (removed /\ ~venv_dir)
    /\ (pc = "venv_python" /\ created # <<>>) =>
            venv_py = get_python_version(SourcePython(argv, cur))
    /\ venv_dir => Cardinality(venv_builds) <= 1

\* the parts of C7 about an environment whose interpreter exists
C7_WhenLauncherExists ==
    /\ (pc = "create" /\ RemovingMessage \in out) => (removed /\ ~venv_dir)
    /\ (pc = "venv_python" /\ created # <<>>) =>
            venv_py = get_python_version(SourcePython(argv, cur))
    /\ pc = "create" => venv_py = 0

\* C8: an environment of the same version is neither removed nor created
\* again, a message says it is kept, and a run that then succeeds marks it
\* valid.
C8_KeepsSameVersion ==
    kept =>
        /\ ~removed /\ created = <<>>
        /\ KeepingMessage \in out
        /\ Succeeded => marks = <<"valid">>

\* what the code does for an environment of the same version: it is kept
\* without a word, and a run that then succeeds on agreeing arguments marks
\* it valid
C8_KeptSilently ==
    kept =>
        /\ ~removed /\ created = <<>>
        /\ out = {}
        /\ (Succeeded /\ ArgsAgree) => marks = <<"valid">>

\* C9: at most two process replacements happen in one invocation, first
\* into the intermediate interpreter and then into the source interpreter,
\* and none between two paths of the same file.
C9_ReexecChainIsBounded ==
    /\ Len(execs) <= 2
    /\ \A i \in 1..Len(execs) :
        /\ execs[i].kind = "intermediate" =>
                i = 1 /\ FileOf(execs[i].sfrom) # FileOf(execs[i].sto)
        /\ execs[i].kind = "source" =>
                i = Len(execs) /\ FileOf(execs[i].from) # FileOf(execs[i].to)
    /\ pc \in {"samefile", "create"} /\ Len(execs) = 2 => ~NeedsExec(cur, SourcePython(argv, cur))

\* creation is reached without any exec by a process whose interpreter and
\* script paths differ as strings from the source and the scratch copy
C9_Witness ==
    /\ pc = "create" /\ execs = <<>>
    /\ cur # SourcePython(argv, cur) /\ script # "scratch"
\* creation is reached after two process replacements
C9_WitnessChain == pc = "create" /\ Len(execs) = 2

\* C10: the environment is created only by a process running the source
\* interpreter; any other process replaces itself by the same script under
\* the source interpreter.
C10_CreatedUnderSource ==
    /\ pc = "create" => samefile(cur, SourcePython(argv, cur))
    /\ \A i \in 1..Len(created) : FileOf(created[i].cur) = FileOf(created[i].source)
    /\ \A i \in 1..Len(execs) :
        execs[i].kind = "source" =>
            /\ execs[i].to = VirtualenvOptions(argv).python
            /\ execs[i].sto = execs[i].sfrom
            /\ \A j \in 1..Len(created) : created[j].cur = execs[i].to

C10_Witness == created # <<>> /\ Len(execs) = 2 /\ venv_py # 0

\* the timestamp of the environment directory was written in this invocation
WroteForward == \E i \in DOMAIN marks : marks[i] = "valid"
WroteBackward == \E i \in DOMAIN marks : marks[i] = "invalid"
TimesWritten == Cardinality({i \in DOMAIN marks : marks[i] \in {"valid", "invalid"}})

C18_NothingToWrite ==
    (Done /\ ~venv_dir /\ exit_code # 0) => marks = <<>>

\* venv_update(args) returned, or left by the SystemExit(0) of a kept environment
RunSucceeded == raised = NoExc \/ raised = SystemExit(0)

\* C19: the process exits 0 when the whole run succeeds, with the exit
\* code of the step that exited non-zero when one did, and with 1 after an
\* interrupt.
C19_ExitCodes ==
    Done =>
        /\ RunSucceeded => exit_code = 0
        /\ raised.type = "CalledProcessError" => exit_code = raised.code
        /\ raised.type = "KeyboardInterrupt" => exit_code = 1

\* C19 for argument lists on which parseargs and virtualenv agree
C19_WhenArgsAgree == ArgsAgree => C19_ExitCodes

\* a step exited with 2 and so did the process; the environment was marked invalid
C19_WhenArgsAgree_Witness ==
    /\ Done /\ ArgsAgree /\ raised = CalledProcessError(2) /\ exit_code = 2
    /\ marks = <<"invalid">>

\* the interpreter the invocation was started with
StartedWith == IF execs = <<>> THEN cur ELSE execs[1].from
\* the version of the environment's interpreter when the invocation started
\* (a process that has not replaced itself has not changed the environment
\* unless it removed or created it)
VersionAtStart == IF execs = <<>> THEN venv_py ELSE execs[1].env
NoPythonOption == VirtualenvOptions(argv).python = ""

\* C22: a successful run that was started by the environment's own
\* interpreter, without --python, leaves an environment with the
\* interpreter version it had before the run.
C22_SameVersionAsStarted ==
    (Succeeded /\ StartedWith = "dest" /\ NoPythonOption) =>
        /\ venv_py = VersionAtStart
        /\ execs = <<>> => (~removed /\ created = <<>>)

\* C22 when the intermediate environment in the cache has the version of
\* the target environment
C22_WhenScratchHasSameVersion ==
    (execs # <<>> /\ scratch_py = execs[1].env) => C22_SameVersionAsStarted

\* such a run, through the intermediate interpreter, kept the environment
C22_WhenScratchHasSameVersion_Witness ==
    /\ Succeeded /\ StartedWith = "dest" /\ NoPythonOption
    /\ execs # <<>> /\ scratch_py = execs[1].env /\ kept /\ venv_py = 2

\* C23: a run that keeps the existing environment keeps one that a fresh
\* build would equal: made at the place it is now, with the creation
\* options of this command line.
C23_KeptOnlyWhenEquivalent ==
    (Succeeded /\ kept) =>
        \A b \in venv_builds :
            /\ b.at = "here"
            /\ b.system_site_packages = VirtualenvOptions(argv).system_site_packages

\* the one test adjust_options makes: a kept environment has the version of
\* the source interpreter
C23_KeptHasSourceVersion ==
    (kept /\ pc = "venv_python") =>
        venv_py = get_python_version(SourcePython(argv, cur))

\* C31: the path main() marks is the directory the environment is made or
\* kept in: what parseargs returned is what adjust_options took for
\* venv_path, for every argument list.
C31_MarksTheEnvironment ==
    nl_venv_path # "" => venv_path = nl_venv_path

\* C31 for argument lists without an option that takes its value as the
\* next argument
C31_WhenValuesAreAttached ==
    (\A i \in DOMAIN argv : argv[i] # "-p") => C31_MarksTheEnvironment

\* such a run, with an attached --python=, got as far as adjust_options
C31_WhenValuesAreAttached_Witness ==
    /\ argv = <<"--python=py", "venv">> /\ nl_venv_path = "venv" /\ venv_path = "venv"

\* C33: the process that is about to run `rm -rf venv_path` is not run by
\* the interpreter of that environment.
C33_NotRemovedFromInside ==
    pc = "rm" => ~samefile(cur, DestinationPython)

\* C33 for the processes exec_intermediate_virtualenv has replaced, and for
\* those started by an interpreter outside the environment
C33_WhenExeced ==
    (execs # <<>> \/ cur # "dest") => C33_NotRemovedFromInside

\* the intermediate interpreter is about to remove an environment that the
\* run was started from
C33_WhenExeced_Witness ==
    /\ pc = "rm" /\ execs # <<>> /\ execs[1].from = "dest" /\ cur = "inter"

\* C35: mark_venv_invalid of a path that is no directory does nothing: it
\* writes no timestamp, waits for no child, prints and creates nothing, and
\* main() goes on to re-raise; the process then ends with a status other
\* than 0, the files still as they were.
C35_NoDirectoryNoMark ==
    /\ [][ (pc = "mark_invalid" /\ ~isdir(venv_path)) =>
                /\ pc' = "reraise"
                /\ UNCHANGED <<fsvars, marks, out, reaped, waited, children, exc>>
         ]_vars
    /\ [][ pc = "reraise" =>
                /\ pc' = "done" /\ exit_code' # 0
                /\ UNCHANGED <<fsvars, marks, out, reaped, waited, children>>
         ]_vars

\* a failed run whose path is the interpreter file, and one whose
\* environment directory is not there, ended without a mark
C35_Witness ==
    /\ Failed /\ ~isdir(venv_path) /\ marks = <<>> /\ ~waited
    /\ venv_path = "py" \/ (venv_path = EnvDir /\ ~venv_dir)

(***************************************************************************)
(* Properties of pip_faster.do_install().                                  *)
(***************************************************************************)
InstallDone == ipc = "done"
InstallSucceeded == InstallDone /\ install_exit = 0
\* the trace ran to its end in this run
Traced == ipc \in {"prune", "done"} /\ \E i \in DOMAIN phases :
                phases[i].no_index /\ phases[i].rc = 0

\* the packages that the requirements ask for, by name or by URL, and the
\* packages those declare as dependencies, in the working set ws
RECURSIVE Reach(_, _, _)
Reach(todo, acc, ws) ==
    IF todo = {} THEN acc
    ELSE LET k == CHOOSE x \in todo : TRUE
             deps == {requires(k, ws[k])[i].key : i \in DOMAIN requires(k, ws[k])}
         IN  Reach((todo \cup deps) \ (acc \cup {k}), acc \cup {k}, ws)

RequiredClosure ==
    Reach({IF required[i].url # "" THEN required[i].url ELSE required[i].key :
                i \in DOMAIN required}, {}, working_set)

\* how often a package is named in the uninstall commands of the run
TimesUninstalled(P) ==
    Cardinality({ij \in (DOMAIN uninstalls) \X (1..Cardinality(Packages)) :
                    /\ ij[2] \in DOMAIN uninstalls[ij[1]]
                    /\ uninstalls[ij[1]][ij[2]] = P})

\* installed before the run, not required (directly or through a
\* dependency), not installed by this run, not a bootstrap package
Unreferenced ==
    {P \in Packages : /\ before[P] # 0
                      /\ P \notin RequiredClosure
                      /\ P \notin newly
                      /\ P \notin {"pip", "setuptools", "wheel"}}

\* C4: a successful do_install passes every unreferenced package to
\* uninstall exactly once, and passes no other package to uninstall.
C4_PrunesExactlyUnreferenced ==
    InstallSucceeded =>
        \A P \in Packages :
            TimesUninstalled(P) = IF P \in Unreferenced THEN 1 ELSE 0

\* every name pip reported for this run is the key of its distribution
NamesAreKeys == \A req \in recently_installed : req.name = req.key

\* C4 for the runs in which pip reports every package under its key
C4_WhenNamesAreKeys == NamesAreKeys => C4_PrunesExactlyUnreferenced

\* a package installed by hand between two runs is removed by the next run
C4_WhenNamesAreKeys_Witness ==
    /\ InstallSucceeded /\ NamesAreKeys
    /\ TimesUninstalled("pure-python-package") = 1
    /\ "b" \in newly /\ installed["b"] # 0

\* the working set of the trace holds a at version 1, a required package
\* that is installed declares a==2, and no requirements file names a
ConflictCase ==
    /\ Traced
    /\ working_set["a"] = 1
    /\ \A i \in DOMAIN required : required[i].key # "a" /\ required[i].url # "a"
    /\ \E i \in DOMAIN required :
        /\ required[i].key \in Packages
        /\ working_set[required[i].key] # 0
        /\ Requirement("a", 2) \in
                ToSet(requires(required[i].key, working_set[required[i].key]))

\* C5: with a at version 1 installed and a==2 wanted only by a dependency
\* declaration, a version conflict is reported for a, the run exits
\* non-zero and uninstall is never called; the prune step is reached only
\* with no error recorded.
C5_ConflictStopsPrune ==
    /\ ipc = "prune" => ~errors
    /\ uninstalls # <<>> => ~errors
    /\ (InstallDone /\ ConflictCase) =>
            /\ \E i \in DOMAIN logged :
                    logged[i].kind = "conflict" /\ logged[i].dist = "a"
            /\ install_exit # 0
            /\ uninstalls = <<>>

\* the conflict stopped a run that had something to uninstall
C5_Witness ==
    /\ InstallDone /\ ConflictCase /\ install_exit = 1
    /\ extraneous(previously_installed, ToSet(result), recently_installed) # {}

\* C6: pip, setuptools and wheel are never passed to uninstall.
C6_BootstrapNeverUninstalled ==
    \A i \in DOMAIN uninstalls :
        ToSet(uninstalls[i]) \cap {"pip", "setuptools", "wheel"} = {}

\* an uninstall was issued although the three were installed before the
\* run, not installed by it, not required and not in the traced closure
C6_Witness ==
    /\ uninstalls # <<>>
    /\ \A P \in {"pip", "setuptools", "wheel"} :
        /\ before[P] # 0
        /\ P \notin newly
        /\ P \notin reqnames(ToSet(result))
        /\ P \notin reqnames(recently_installed)

\* the commands of do_install in the order the code issues them
Plan == <<"bootstrap", "bootstrap+requirements", "requirements", "extraneous">>

\* the first n pip commands of the run were issued in order and returned 0
RanInOrder(n) ==
    /\ Len(phases) = n
    /\ \A i \in 1..n : phases[i].what = Plan[i] /\ phases[i].rc = 0

\* C11: the three phases run in the order bootstrap install, wheel build,
\* install from the cache, each only after the one before returned 0; a
\* phase whose pip returns non-zero is the last thing the run does: the
\* process exits with that code and no later phase, no trace and no
\* uninstall runs.
C11_PhasesInOrderOrExit ==
    /\ \A i \in DOMAIN phases :
        /\ i <= Len(Plan) /\ phases[i].what = Plan[i]
        /\ i > 1 => phases[i - 1].rc = 0
        /\ phases[i].rc # 0 =>
            /\ i = Len(phases) /\ InstallDone /\ install_exit = phases[i].rc
            /\ i <= 3 => uninstalls = <<>> /\ result = <<>> /\ logged = <<>>
    /\ ipc = "phase1" => RanInOrder(0)
    /\ ipc = "phase2" => RanInOrder(1)
    /\ ipc = "phase3" => RanInOrder(2)
    /\ ipc \in {"trace", "trace_loop", "prune"} => RanInOrder(3)
    /\ uninstalls # <<>> =>
            Len(phases) = 4 /\ \A i \in 1..3 : phases[i].rc = 0

\* the wheel build failed with 2 after a successful bootstrap, on
\* requirements that a complete run would have traced
C11_Witness ==
    /\ InstallDone /\ install_exit = 2 /\ required # <<>>
    /\ Len(phases) = 2 /\ phases[1].rc = 0 /\ phases[2].rc = 2
    /\ phases[2].cmd = "wheel"

\* the options that name a place to take packages from
LocalSources == {"--download-cache=~/.pip/cache", "--find-links=file://~/.pip/wheelhouse"}
\* the options that do not name one
Switches == {"--upgrade", "--use-wheel", "--no-index"}

\* C12: the install of phase 3 is always called with --no-index and with
\* the local cache directories as its only package sources; the install of
\* phase 1 and the wheel build of phase 2 are called without --no-index.
C12_Phase3IsOffline ==
    \A i \in DOMAIN phases :
        /\ phases[i].what = "requirements" =>
            /\ phases[i].cmd = "install"
            /\ "--no-index" \in ToSet(phases[i].opts)
            /\ ToSet(phases[i].opts) \ Switches = LocalSources
        /\ phases[i].what \in {"bootstrap", "bootstrap+requirements"} =>
            /\ "--no-index" \notin ToSet(phases[i].opts)
            /\ LocalSources \subseteq ToSet(phases[i].opts)

\* phase 3 installed b and its dependency after both earlier phases
C12_Witness ==
    /\ Len(phases) >= 3 /\ phases[3].what = "requirements" /\ phases[3].rc = 0
    /\ phases[1].rc = 0 /\ phases[2].rc = 0
    /\ {"a", "b"} \subseteq newly

\* this run succeeded, right after a successful run on the same requirements
SecondRun ==
    InstallSucceeded /\ previous_run.ok /\ previous_run.required = required

\* C13: a second successful run on unchanged requirements leaves the same
\* installed packages as the first, installs nothing and uninstalls nothing.
C13_SecondRunChangesNothing ==
    SecondRun =>
        /\ installed = previous_run.installed
        /\ newly = {}
        /\ uninstalls = <<>>

\* C13 for requirements that are all given by name
C13_WhenAllNamed ==
    (\A i \in DOMAIN required : required[i].url = "") => C13_SecondRunChangesNothing

\* a second run on requirements given by name, with something to re-confirm
C13_WhenAllNamed_Witness ==
    /\ SecondRun /\ required = <<Requirement("b", 0)>>
    /\ installed["a"] = 2 /\ installed["b"] = 1

\* C13, the installed set alone, when pip reports packages under their keys
C13_SameSetWhenNamesAreKeys ==
    (SecondRun /\ NamesAreKeys) => installed = previous_run.installed

\* the trace is in its loop
Tracing == ipc = "trace_loop"

\* the working set of the trace holds two distributions that declare each other
CycleInstalled == working_set["circular-a"] # 0 /\ working_set["circular-b"] # 0

\* C14: trace_requirements terminates on every graph of installed
\* packages, cycles included: once in its loop it leaves it.
C14_TraceTerminates == Tracing ~> ~Tracing

\* C14 for working sets without the two packages that declare each other
C14_TerminatesWithoutCycle == (Tracing /\ ~CycleInstalled) ~> ~Tracing

\* no trace that returns fills the result list up to the bound
C14_BoundNotReached == ipc \in {"prune", "done"} => Len(result) < MaxResult

\* the requirement at the head of the queue has no installed distribution
UnmetAtHead ==
    /\ Tracing /\ queue # <<>>
    /\ Head(queue).key # "None" /\ working_set[Head(queue).key] = 0

\* an unmet dependency was reported in this run
UnmetLogged == \E i \in DOMAIN logged : logged[i].kind = "unmet"

\* C15: a requirement without an installed distribution is logged as an
\* unmet dependency, nothing is enqueued for it and nothing added to the
\* result, the loop goes on with the rest of the queue, and the run
\* then never reaches the uninstall step and ends with a non-zero status.
C15_UnmetIsFatal ==
    /\ [](UnmetLogged =>
            /\ errors /\ ipc # "prune" /\ uninstalls = <<>>
            /\ InstallDone => install_exit # 0)
    /\ [][UnmetAtHead =>
            /\ logged' = Append(logged, [kind |-> "unmet", name |-> Head(queue).name,
                                         dist |-> "None"])
            /\ queue' = Tail(queue) /\ result' = result
            /\ Tracing']_vars

\* a was reported unmet, the loop went on to circular-b behind it in the
\* queue, and the run ended with 1 although it had packages to uninstall
C15_Witness ==
    /\ InstallDone /\ install_exit = 1
    /\ Len(logged) = 2 /\ logged[1].kind = "unmet" /\ logged[1].name = "a"
    /\ logged[2].kind = "unmet" /\ logged[2].name = "circular-b"
    /\ Len(result) = 2
    /\ extraneous(previously_installed, ToSet(result), recently_installed) # {}

(***************************************************************************)
(* Properties of pip_faster.faster_find_requirement().                     *)
(***************************************************************************)
Answered == answer.kind # "pending"
\* the requirement has a name and an == specifier
Pinned == ~lookup.req.req_is_None /\ \E i \in DOMAIN lookup.req.specs :
                                        lookup.req.specs[i][1] = "=="
\* an installed distribution satisfies the requirement
AlreadySatisfied == satisfied_by(lookup.req) # 0
\* the wheels of a local find-links directory that have the requirement's
\* name, a version in the requirement and supported tags
FittingWheels ==
    IF \E i \in DOMAIN lookup.find_links : lookup.find_links[i] = "file://~/.pip/wheelhouse"
    THEN {wheel \in lookup.wheelhouse :
            /\ wheel.name = replace_dash(lookup.req.name)
            /\ VersionIn(wheel.version, lookup.req.specs)
            /\ wheel.supported}
    ELSE {}
\* the call handed the requirement to the original find_requirement
Delegated == answer.delegated /\ answer.kind = "find_requirement" /\ answer.link = NoWheel

\* a link is given only for a pinned requirement, and is a fitting wheel
LocalLinkFits == answer.kind = "link" => Pinned /\ answer.link \in FittingWheels

\* C16 as stated: a local wheel is returned only for a pinned requirement,
\* with a version in the requirement and supported tags; for an unpinned or
\* URL-style requirement, or when no such wheel is in a local find-links
\* directory, the call delegates to the original full search.
C16_DelegatesUnlessLocalWheel ==
    Answered =>
        /\ LocalLinkFits
        /\ (~Pinned \/ FittingWheels = {}) => Delegated

\* C16, amended: as above, but a pinned requirement without a fitting local
\* wheel is delegated to the full search only when no installed
\* distribution satisfies it; one that is satisfied gets neither a local
\* wheel nor the full search.
C16_DelegatesUnlessLocalWheelOrSatisfied ==
    Answered =>
        /\ LocalLinkFits
        /\ ~Pinned => Delegated
        /\ (Pinned /\ ~AlreadySatisfied /\ FittingWheels = {}) => Delegated
        /\ (Pinned /\ AlreadySatisfied) => ~Delegated /\ answer.kind # "link"

\* a wheel was returned from a directory that also holds a wheel of the
\* same version with unsupported tags and a wheel of another version
C16_Witness ==
    /\ answer.kind = "link" /\ answer.link.version = 1
    /\ lookup.req.installed = 2
    /\ Cardinality(glob(lookup.wheelhouse, "pure_python_package")) = 3

\* C17: a pinned requirement that an installed distribution satisfies is
\* answered before any directory is scanned and without the full search:
\* BestVersionAlreadyInstalled is raised when upgrading, None is returned
\* otherwise.
C17_SatisfiedShortCircuits ==
    (Answered /\ Pinned /\ AlreadySatisfied) =>
        /\ answer.scanned = 0 /\ ~answer.delegated /\ answer.link = NoWheel
        /\ answer.kind = IF lookup.upgrade THEN "BestVersionAlreadyInstalled" ELSE "None"

\* raised under upgrade although a fitting wheel was in a local directory
C17_Witness ==
    /\ answer.kind = "BestVersionAlreadyInstalled" /\ lookup.upgrade
    /\ FittingWheels # {} /\ lookup.req.installed = 1

\* pip_faster.main(): the exit status is 0 after a complete run, the code of
\* the pip command that failed, or 1 after errors of the trace
C19_InstallExitCodes ==
    InstallDone =>
        /\ (phases # <<>> /\ phases[Len(phases)].rc # 0) =>
                install_exit = phases[Len(phases)].rc
        /\ (\A i \in DOMAIN phases : phases[i].rc = 0) =>
                install_exit = IF errors THEN 1 ELSE 0

\* site-packages after the environment is removed, made again and
\* pip-faster is run in it on the requirements reqs
Rebuilt(reqs) ==
    LET bootstrapped == PipResolve(BOOTSTRAP_VERSIONS, NewEnvironment, {}, {}, TRUE)
    IN  PipResolve(reqs, bootstrapped.installed, {}, {}, TRUE).installed

\* C20: after a successful run the installed packages and their versions
\* are those of an environment rebuilt from the same requirements.
C20_SameAsRebuilt == InstallSucceeded => installed = Rebuilt(required)

\* C20 for the runs in which pip reports every package under its key
C20_WhenNamesAreKeys == NamesAreKeys => C20_SameAsRebuilt

\* one run downgraded a from 2 to 1, removed an extra package and b, and
\* ended with the packages of a rebuilt environment
C20_WhenNamesAreKeys_Witness ==
    /\ InstallSucceeded /\ NamesAreKeys /\ installed = Rebuilt(required)
    /\ before["a"] = 2 /\ installed["a"] = 1
    /\ before["pure-python-package"] = 1 /\ installed["pure-python-package"] = 0
    /\ uninstalls # <<>>

\* one run upgraded the dependency a from 1 to 2
C20_UpgradeWitness ==
    /\ InstallSucceeded /\ NamesAreKeys /\ installed = Rebuilt(required)
    /\ before["a"] = 1 /\ installed["a"] = 2

\* the packages venv-update needs in the environment to keep working
ToolPackages == {"pip-faster", "virtualenv", "wheel"}

\* C21: after a successful run in an environment that held pip-faster,
\* virtualenv and wheel, the three are still installed: the prune step
\* does not remove them.
C21_ToolPackagesKept ==
    (InstallSucceeded /\ \A P \in ToolPackages : before[P] # 0) =>
        \A P \in ToolPackages : installed[P] # 0

\* of the three, wheel is kept by every successful run
C21_WheelKept == InstallSucceeded => installed["wheel"] # 0
\* the packages requirements.d/venv-update.txt lists and the requirements
\* of the command line do not
ListedOnlyInOverride ==
    {r.key : r \in ToSet(OverrideFile)}
        \ ({r.key : r \in ToSet(required)} \cup {r.url : r \in ToSet(required)})

C25_Phase3SameSetAsPhase2 ==
    /\ Len(phases) >= 3 =>
        /\ phases[3].cmd = "install" /\ phases[3].no_index
        /\ phases[2].what = "bootstrap+requirements"
        /\ phases[3].what = phases[2].what
    /\ ipc \in {"trace", "trace_loop", "prune"} =>
        newly \subseteq {x.key : x \in recently_installed}

\* the part of C25 about the result: it holds what phases 1 and 3 installed
C25_ResultAggregates ==
    ipc \in {"trace", "trace_loop", "prune"} =>
        /\ newly \subseteq {x.key : x \in recently_installed}
        /\ \A x \in recently_installed :
            x.key \in {r.key : r \in ToSet(BOOTSTRAP_VERSIONS)} \/ installed[x.key] # 0

\* C26: a run in which phase 2 could not build the wheel of one required
\* package is not aborted: phase 3 runs and returns, the run ends with
\* status 0 and the package is installed.
C26_UnbuiltIsInstalled ==
    (ipc = "done" /\ unbuilt # {}) =>
        /\ Len(phases) >= 3 /\ phases[3].rc = 0
        /\ install_exit = 0
        /\ \A k \in unbuilt : installed[k] # 0

\* what the code does instead: every such run ends with the status of the
\* pip command that failed, in phase 2 or in phase 3, and nothing was pruned
C26_UnbuiltAborts ==
    (ipc = "done" /\ unbuilt # {}) =>
        /\ Len(phases) \in {2, 3}
        /\ phases[Len(phases)].rc # 0 /\ install_exit = phases[Len(phases)].rc
        /\ \A k \in unbuilt : installed[k] = before[k]
        /\ uninstalls = <<>>

\* a run whose wheel build failed got as far as phase 3
C26_UnbuiltAborts_Witness ==
    ipc = "done" /\ unbuilt = {"b"} /\ Len(phases) = 3 /\ phases[2].rc = 0

\* C27: the list trace_requirements returns holds every distribution at
\* most once.
C27_NoDuplicates ==
    ipc = "prune" =>
        \A i, j \in 1..Len(result) : result[i] = result[j] => i = j

\* C27 for requirements none of which is reached twice: as many entries as
\* distinct distributions
C27_WhenReachedOnce ==
    (ipc = "prune" /\ Len(required) <= 1 /\ ~CycleInstalled) => C27_NoDuplicates

\* the version conflicts reported, in order
Conflicts == SelectSeq(logged, LAMBDA l : l.kind = "conflict")

\* C28: a version conflict is reported once for a package, however the
\* requirements that conflict with it spell its name.
C28_OncePerNormalizedName ==
    \A i, j \in 1..Len(Conflicts) :
        lower(Conflicts[i].name) = lower(Conflicts[j].name) => i = j

\* what seen_warnings gives: once for each spelling
C28_OncePerSpelling ==
    \A i, j \in 1..Len(Conflicts) :
        Conflicts[i].name = Conflicts[j].name => i = j

\* the conflict with a was reported, and a conflicting requirement on it
\* came off the queue again
C28_OncePerSpelling_Witness ==
    /\ ipc = "trace_loop" /\ Len(Conflicts) = 1 /\ "a" \in seen_warnings
    /\ Len(result) = 4 /\ result[4].key = "a"

\* a turn of the loop that recorded an error
ErrorStep == Tracing /\ logged' # logged

\* C29: an error does not end the trace.  The turn that records it leaves
\* the process in the loop, and a conflicting distribution is appended to
\* the result like any other; the process exits, with 1, from the empty
\* queue alone, and the function returns its result from the empty queue
\* when no error was recorded.  Without a dependency cycle a trace that
\* recorded an error does come to that exit.
C29_ErrorsEndTheRunLast ==
    /\ [][ /\ (Tracing /\ queue # <<>>) => Tracing'
           /\ (ErrorStep /\ Len(logged') > 0 /\ logged'[Len(logged')].kind = "conflict") =>
                /\ Len(result) < MaxResult => Len(result') = Len(result) + 1
                /\ result'[Len(result')].key = logged'[Len(logged')].dist
                /\ errors'
           /\ (Tracing /\ ipc' = "done") =>
                (queue = <<>> /\ errors /\ install_exit' = 1)
           /\ (Tracing /\ ipc' = "prune") =>
                (queue = <<>> /\ ~errors /\ result' = result)
         ]_vars
    /\ (Tracing /\ errors /\ ~CycleInstalled) ~> (ipc = "done" /\ install_exit = 1)

\* a trace went on after its first error, recorded a second one and exited
\* with 1
C29_Witness ==
    /\ ipc = "done" /\ install_exit = 1 /\ Len(phases) = 3
    /\ Len(logged) = 2 /\ queue = <<>> /\ Len(result) = 5

\* the place of a name in the order of sorted()
Place(k) == CHOOSE i \in 1..Len(SortedKeys) : SortedKeys[i] = k

\* what the run has to remove: what was installed when it started, less
\* what the trace returned, what the run installed and the bootstrap packages
Extraneous ==
    (({k \in Packages : before[k] # 0} \ {r.name : r \in ToSet(result)})
        \ {r.name : r \in recently_installed}) \ {"pip", "setuptools", "wheel"}

\* C30: a run issues at most one uninstall command; the command names
\* exactly the extraneous packages, in sorted order, and there is none when
\* nothing is extraneous; previously_installed is what was installed when
\* the run started.
C30_OneSortedUninstall ==
    /\ Len(uninstalls) <= 1
    /\ Cardinality({i \in DOMAIN phases : phases[i].cmd = "uninstall"}) = Len(uninstalls)
    /\ \A n \in DOMAIN uninstalls :
        LET names == uninstalls[n]
        IN  /\ names # <<>>
            /\ ToSet(names) = Extraneous
            /\ \A i, j \in DOMAIN names : i < j => Place(names[i]) < Place(names[j])
    /\ (InstallSucceeded /\ uninstalls = <<>>) => Extraneous = {}
    /\ ipc \notin {"idle", "done"} =>
        reqnames(previously_installed) = {k \in Packages : before[k] # 0}

\* a run removed two packages with its one command
C30_Witness ==
    /\ InstallSucceeded /\ Len(uninstalls) = 1 /\ Len(uninstalls[1]) >= 2
    /\ \A k \in ToSet(uninstalls[1]) : before[k] # 0 /\ installed[k] = 0

\* the distributions the two pip_install calls of this run reported
ReportedInstalled == {x.key : x \in recently_installed}

\* C32: no package that phase 1 or phase 3 reported as installed is named
\* in the uninstall command of the same run.
C32_InstalledIsNotPruned ==
    \A n \in DOMAIN uninstalls :
        ToSet(uninstalls[n]) \cap ReportedInstalled = {}

\* C32 for the runs in which pip reports every package under its key
C32_WhenNamesAreKeys == NamesAreKeys => C32_InstalledIsNotPruned

\* such a run reported a package that was installed before, and pruned
\* another one
C32_WhenNamesAreKeys_Witness ==
    /\ InstallSucceeded /\ NamesAreKeys /\ uninstalls # <<>>
    /\ \E k \in ReportedInstalled : before[k] # 0 /\ k \notin {"pip", "setuptools", "wheel"}

\* C34: the two patches last as long as the pip call.  Once pip() or
\* pip_install() is left, by return, by exit or by an exception,
\* PackageFinder.find_requirement and InstallCommand.run are the functions
\* pip ships and PackageFinder.unpatched is gone; the short-circuit lookup
\* answers only while pipmodule.main runs.
C34_PatchIsScoped ==
    /\ pip_pc \in {"left", "idle"} =>
        /\ find_requirement = "find_requirement"
        /\ InstallCommand_run = "run"
        /\ unpatched = "absent"
    /\ find_requirement = "faster_find_requirement" => pip_pc \in {"main", "finally"}
    /\ answer.kind \in {"BestVersionAlreadyInstalled", "None", "link"} => pip_pc = "main"

\* a pip_install call was left by an exception out of pipmodule.main
C34_Witness ==
    /\ pip_pc = "left" /\ pip_via = "pip_install" /\ pip_exc = OtherException
    /\ find_requirement = "find_requirement" /\ InstallCommand_run = "run"

====
